---- MODULE Spec2Model ----
(***************************************************************************)
(* Model of the auto-poster slot executor (src/auto_poster.py).            *)
(*                                                                         *)
(* One slot (one S3 prefix) is followed across successive invocations of   *)
(* run_slot.  The S3 bucket is the sets source (keys under the slot        *)
(* prefix) and posted (keys under posted/<key>); the four platforms and    *)
(* S3 are the environment and answer nondeterministically.                 *)
(***************************************************************************)
EXTENDS Integers, Sequences, FiniteSets, TLC

MaxDay == 2
MaxObjs == 2
MaxRuns == 2
MaxSize == 3        \* bytes of the local video file
MaxTransfers == 3   \* transfer POSTs followed within one upload
MaxKeys == 3        \* keys in one response of list_objects_v2 (1000 in S3)
MaxArchived == 3    \* objects under posted/ when the cleanup runs
MaxName == 4        \* tokens of an object key

MAX_YT_RETRIES == 3
\* len([0, 5, 11, ..., 53]) and len([0, 7, 15, ..., 71]): polls of the container
IG_POLLS == 10
\* cleanup_posted_objects(max_age_hours=48)
MAX_AGE_HOURS == 48

Dest == {"yt", "fb", "ig", "tt"}

\* An object key under the slot prefix: <<date token, title, extension>>,
\* standing for "<prefix>/<YYYY-MM-DD> <title>.<ext>".
Titles == {"a", "b"}
Exts == {"mp4", "txt"}
Keys == (1..MaxDay) \X Titles \X Exts
NoKey == <<0, "", "">>

KeyDate(k) == k[1]
IsMp4(k) == k[3] = "mp4"
TitleRank(t) == IF t = "a" THEN 1 ELSE 2
ExtRank(e) == IF e = "mp4" THEN 1 ELSE 2

\* Python string order on keys of one prefix: the date token is fixed width,
\* so the order is date, then title, then extension.
KeyLess(a, b) ==
    \/ a[1] < b[1]
    \/ a[1] = b[1] /\ TitleRank(a[2]) < TitleRank(b[2])
    \/ a[1] = b[1] /\ a[2] = b[2] /\ ExtRank(a[3]) < ExtRank(b[3])

VARIABLES
    slot,       \* the slot's post_<platform> flags
    plat,       \* platform_status(): globally enabled platforms
    today,      \* date.today()
    source,     \* keys present under the slot prefix
    posted,     \* keys k with posted/<k> present
    ingested,   \* every key upstream ingestion ever put under the prefix
    pc,         \* position of the process in run_slot
    s3_key,     \* run_slot's s3_key (NoKey: none selected)
    res,        \* per destination: "none" (not attempted), "ok", "fail"
    all_ok,     \* run_slot's all_ok
    status,     \* run_slot's return value, "" until it is decided
    yt,         \* upload_to_youtube's locals
    copyRes,    \* copy_object of this run: "none", "ok", "raise"
    delRes,     \* delete_object of this run: "none", "ok", "raise"
    lastExc,    \* the destination whose adapter call just raised ("" if it did not)
    crashedIn,  \* where an exception left run_slot ("" if none)
    runs,       \* number of run_slot invocations started
    succeeded,  \* keys for which run_slot returned SUCCESS
    prev,       \* the previous invocation: its key, its day, the destinations
                \* that accepted the key, the status returned ("" if it died)
    fb,         \* upload_to_facebook / fb_chunk_upload: locals and requests issued
    ig,         \* upload_to_instagram_reels / _video: locals and requests issued
    cl,         \* cleanup_posted_objects: the posted/ objects and its locals
    mn,         \* __main__: SLOT_FILTER, the loop over SLOTS, run_summary
    mt,         \* parse_metadata_from_key: its argument and its result
    igv,        \* upload_to_instagram_video run beside upload_to_instagram_reels
    tt          \* upload_to_tiktok / post_video_to_tiktok: steps and requests

vars == <<slot, plat, today, source, posted, ingested, pc, s3_key, res, all_ok,
          status, yt, copyRes, delRes, lastExc, crashedIn, runs, succeeded,
          prev, fb, ig, cl, mn, mt, igv, tt>>

cfgVars == <<slot, plat>>
worldVars == <<today, source, posted, ingested>>
histVars == <<succeeded, prev>>
protoVars == <<fb, ig, cl, mn, mt, igv, tt>>

YtIdle == [attempt |-> 0, raised |-> 0, last |-> "none", ret |-> FALSE]
NoRes == [d \in Dest |-> "none"]
NoPrev == [key |-> NoKey, day |-> 0, oks |-> {}, status |-> ""]

\* fb_chunk_upload has not been called.
FbIdle == [pc |-> "idle", exists |-> TRUE, size |-> 0, s |-> 0, e |-> 0,
           starts |-> 0, transfers |-> 0, finishes |-> 0, oks |-> 0,
           ranges |-> 0, badPhase |-> "", conform |-> TRUE, ret |-> "none",
           calls |-> 0, up |-> "none", empty |-> FALSE, zeroPosts |-> 0]

\* upload_to_instagram_reels / _video has not been called.
\* type is slot["type"]; variant, media and slept record which adapter runs,
\* the media_type it sends and the seconds it has slept.
IgIdle == [pc |-> "idle", type |-> "short", variant |-> "", media |-> "",
           slept |-> 0, creates |-> 0, polls |-> 0, last |-> "none",
           errorAt |-> 0, publishes |-> 0, ret |-> "none"]

\* cleanup_posted_objects has not been called; the bucket is empty.
\* lm[i] is the LastModified of the i-th object under posted/, in hours, and
\* src[j] that of the j-th object at a slot's source location; in key order
\* the bucket is lm \o src.  token is continuation_token (0 for None), seen
\* the objects handed to the `for obj in contents:` loop, twice whether one
\* was handed to it again, pages and truncs the pages received and how many
\* of them were truncated, fresh the objects archived by this process.
ClIdle == [pc |-> "idle", now |-> 0, cutoff |-> 0, lm |-> << >>, src |-> << >>,
           next |-> 1, token |-> 0, issued |-> {}, failed |-> {}, gone |-> {},
           seen |-> {}, twice |-> FALSE, pages |-> 0, truncs |-> 0, fresh |-> {}]

\* The names of SLOTS, in the order of the list.
SlotNames == <<"reel_9am", "reel_4pm", "std_9_30am", "std_4_30pm">>
SlotNameSet == {SlotNames[i] : i \in 1..Len(SlotNames)}

\* The mandatory settings of the storage.
CoreEnv == {"AWS_ACCESS_KEY_ID", "AWS_SECRET_ACCESS_KEY", "AWS_REGION_NAME",
            "S3_BUCKET_NAME"}

\* The process has not started; env holds the settings that are present.
MnIdle == [pc |-> "idle", env |-> CoreEnv, filter |-> "", i |-> 1,
           summary |-> [n \in SlotNameSet |-> ""], ran |-> 0, cleanups |-> 0,
           died |-> "", exit |-> "running"]

\* parse_metadata_from_key has not been called.
MtIdle == [pc |-> "idle", key |-> << >>, title |-> << >>, date |-> ""]

\* upload_to_tiktok has not been called.  token and flag are
\* TIKTOK_ACCESS_TOKEN and TIKTOK_ENABLED_FLAG, file whether local_path is a
\* file and size its bytes; steps are the helpers entered, reqs the requests
\* sent, completed the helpers that returned, failedAt the helper that
\* raised, exc what it raised, why and code the reason, publish_id what
\* init answered, put the bytes announced by the upload, fetched the
\* publish_id the status fetch asked for, pub the status it got.
TtIdle == [pc |-> "idle", token |-> TRUE, flag |-> TRUE, file |-> TRUE,
           size |-> 0, steps |-> << >>, reqs |-> << >>, completed |-> 0,
           failedAt |-> "", exc |-> "", why |-> "", code |-> "",
           publish_id |-> "", put |-> 0, fetched |-> "", pub |-> "",
           ret |-> "none"]

AuxIdle == mt = MtIdle /\ igv = IgIdle /\ tt = TtIdle

ProtoIdle == fb = FbIdle /\ ig = IgIdle /\ cl = ClIdle /\ mn = MnIdle /\ AuxIdle

\* `slot.get("post_x") and x_enabled`
EnabledFor(d) == slot[d] /\ plat[d]

\* Mutant: the date filter is missing (the newest video of any date).
Mp4sAnyDay(src, day) == {k \in src : IsMp4(k)}

\* get_latest_video_key: the greatest key among today's .mp4 keys, or none.
Mp4sToday(src, day) == {k \in src : IsMp4(k) /\ KeyDate(k) = day}

\* mp4s_today.sort(): the keys in ascending order.
RECURSIVE SortKeys(_)
SortKeys(c) ==
    IF c = {} THEN << >>
    ELSE LET least == CHOOSE k \in c : \A o \in c : ~KeyLess(o, k)
         IN <<least>> \o SortKeys(c \ {least})

\* Mutant: the first key of the sorted list.
GetEarliestVideoKey(src, day) ==
    LET mp4s_today == SortKeys(Mp4sToday(src, day))
    IN IF mp4s_today = << >> THEN NoKey ELSE mp4s_today[1]

\* `if not mp4s_today: return None`; mp4s_today.sort();
\* latest_key = mp4s_today[-1]
GetLatestVideoKey(src, day) ==
    LET mp4s_today == SortKeys(Mp4sToday(src, day))
    IN IF mp4s_today = << >> THEN NoKey ELSE mp4s_today[Len(mp4s_today)]

\* s3.list_objects_v2(Bucket, Prefix) called once: resp["Contents"] is the
\* first page of the listing, the at most MaxKeys least keys under the prefix.
ListObjectsV2(src) ==
    {k \in src : Cardinality({o \in src : KeyLess(o, k)}) < MaxKeys}

\* SLOTS: every slot posts to every platform.
SLOTS == [d \in Dest |-> TRUE]

\* No invocation of run_slot is under way.
RunIdle ==
    /\ pc = "idle"
    /\ s3_key = NoKey
    /\ res = NoRes
    /\ all_ok = TRUE
    /\ status = ""
    /\ yt = YtIdle
    /\ copyRes = "none"
    /\ delRes = "none"
    /\ lastExc = ""
    /\ crashedIn = ""
    /\ runs = 0
    /\ succeeded = {}
    /\ prev = NoPrev

InitRest ==
    /\ plat \in [Dest -> BOOLEAN]
    /\ today = 1
    /\ source = {}
    /\ posted = {}
    /\ ingested = {}
    /\ RunIdle

\* The program: the configured slot, any platform status.
Init == slot = SLOTS /\ InitRest /\ ProtoIdle

\* run_slot as a function of its arguments: any slot flags, any platform status.
InitSlot == slot \in [Dest -> BOOLEAN] /\ InitRest /\ ProtoIdle


(***************************************************************************)
(* Decisions of run_slot and of the adapters.                              *)
(***************************************************************************)

\* Mutants of the destination guard: short-circuit after a failure; the
\* platform status ignored.
ShouldAttemptWhileOk(d, ok_so_far) == EnabledFor(d) /\ ok_so_far
ShouldAttemptSlotOnly(d, ok_so_far) == slot[d]

\* `if slot.get("post_x") and x_enabled:` -- the guard of each destination.
ShouldAttempt(d, ok_so_far) == EnabledFor(d)

\* Mutant: the last verdict overwrites all_ok.
AllOkAfterLast(ok_so_far, verdict) == verdict

\* `if not x_ok: all_ok = False`
AllOkAfter(ok_so_far, verdict) == ok_so_far /\ verdict

\* Mutants: archive whatever the verdicts; archive only what some
\* destination accepted.
ShouldArchiveAlways(ok) == TRUE
ShouldArchiveIfPublished(ok) == ok /\ \E d \in Dest : res[d] = "ok"

\* `if all_ok:` before archive_s3_object
ShouldArchive(ok) == ok

\* Mutant: the except block logs and leaves all_ok alone.
OnArchiveErrorKeep(ok) == ok

\* `except Exception ... all_ok = False` around archive_s3_object
OnArchiveError(ok) == FALSE

\* `status = "SUCCESS" if all_ok else "FAILED"`
StatusOf(ok) == IF ok THEN "SUCCESS" ELSE "FAILED"

\* Mutant: the copy's failure is swallowed and the delete still issued.
DeleteAlways(copyResult) == TRUE

\* archive_s3_object: delete_object follows copy_object in the same block, so
\* it is reached only when copy_object did not raise.
DeleteAllowed(copyResult) == copyResult = "ok"

\* Mutant: the original is left in place.
AfterDeleteNoop(src, key) == src

\* s3.delete_object(Bucket, Key=key)
AfterDelete(src, key) == src \ {key}

\* Mutant: upload_to_facebook without its try/except.
CatchesNotFb(d) == d # "fb"

\* Every adapter wraps its network calls in try/except Exception.
Catches(d) == TRUE

\* Mutant: off by one, giving up one attempt early.
GiveUpEarly(attempt) == attempt >= MAX_YT_RETRIES - 1

\* upload_to_youtube: `if attempt >= MAX_YT_RETRIES: return False`
GiveUp(attempt) == attempt >= MAX_YT_RETRIES

Verdict(b) == IF b THEN "ok" ELSE "fail"

OksOfRun == {d \in Dest : res[d] = "ok"}

\* The locals of a finished (or dead) invocation are gone.
ResetRun ==
    /\ s3_key' = NoKey
    /\ res' = NoRes
    /\ all_ok' = TRUE
    /\ status' = ""
    /\ yt' = YtIdle
    /\ copyRes' = "none"
    /\ delRes' = "none"
    /\ lastExc' = ""

runVars == <<s3_key, res, all_ok, status, yt, copyRes, delRes, lastExc>>

(***************************************************************************)
(* Environment between invocations.                                        *)
(***************************************************************************)

\* Upstream ingestion puts a new video under the slot prefix.  Only Select
\* reads the listing, so ingestion is taken between invocations.  Objects
\* that are not .mp4 are never selected, downloaded or archived by run_slot.
IngestKeys == {k \in Keys : IsMp4(k)}

Ingest ==
    /\ pc = "idle"
    /\ Cardinality(ingested) < MaxObjs
    /\ \E k \in IngestKeys \ ingested :
          /\ source' = source \cup {k}
          /\ ingested' = ingested \cup {k}
    /\ UNCHANGED <<cfgVars, protoVars, today, posted, pc, runVars, crashedIn, runs, histVars>>

NextDay ==
    /\ pc = "idle"
    /\ today < MaxDay
    /\ today' = today + 1
    /\ UNCHANGED <<cfgVars, protoVars, source, posted, ingested, pc, runVars, crashedIn, runs,
                   histVars>>

(***************************************************************************)
(* run_slot                                                                *)
(***************************************************************************)

\* s3_key = get_latest_video_key(prefix); `if not s3_key: return "SKIPPED"`
\* Mutant: the result of the selector is not tested.
NoneSelectedNever(key) == FALSE

\* `if not s3_key:`
NoneSelected(key) == key = NoKey

Select ==
    /\ pc = "idle"
    /\ runs < MaxRuns
    /\ runs' = runs + 1
    /\ LET key == GetLatestVideoKey(ListObjectsV2(source), today)
       IN IF NoneSelected(key)
          THEN /\ status' = "SKIPPED"
               /\ pc' = "ret"
               /\ s3_key' = NoKey
          ELSE /\ s3_key' = key
               /\ pc' = "download"
               /\ status' = ""
    /\ UNCHANGED <<cfgVars, protoVars, worldVars, res, all_ok, yt, copyRes, delRes, lastExc,
                   crashedIn, histVars>>

\* list_objects_v2 raises: nothing in run_slot or in __main__ catches it.
SelectRaises ==
    /\ pc = "idle"
    /\ runs < MaxRuns
    /\ runs' = runs + 1
    /\ pc' = "crashed"
    /\ crashedIn' = "list"
    /\ prev' = NoPrev
    /\ UNCHANGED <<cfgVars, protoVars, worldVars, runVars, succeeded>>

\* local_path = download_s3_object(s3_key); meta = ...; all_ok = True
Download ==
    /\ pc = "download"
    /\ \/ /\ pc' = "yt"
          /\ all_ok' = TRUE
          /\ UNCHANGED <<crashedIn, s3_key, prev>>
       \/ /\ pc' = "crashed"           \* download_file raises
          /\ crashedIn' = "download"
          /\ s3_key' = NoKey
          /\ prev' = [key |-> s3_key, day |-> today, oks |-> {}, status |-> ""]
          /\ UNCHANGED all_ok
    /\ UNCHANGED <<cfgVars, protoVars, worldVars, res, status, yt, copyRes, delRes, lastExc,
                   runs, succeeded>>


\* A destination whose guard is false is passed over.
NextStage(d) ==
    CASE d = "yt" -> "fb"
      [] d = "fb" -> "ig"
      [] d = "ig" -> "tt"
      [] d = "tt" -> "decide"

SkipDestination ==
    /\ pc \in Dest
    /\ ~ShouldAttempt(pc, all_ok)
    /\ pc' = NextStage(pc)
    /\ lastExc' = ""
    /\ UNCHANGED <<cfgVars, protoVars, worldVars, s3_key, res, all_ok, status, yt, copyRes, delRes,
                   crashedIn, runs, histVars>>

\* upload_to_youtube up to the retry loop: build() is in its own try/except.
YtBuild ==
    /\ pc = "yt"
    /\ ShouldAttempt("yt", all_ok)
    /\ \/ /\ pc' = "yt_try"
          /\ yt' = [YtIdle EXCEPT !.attempt = 1]
          /\ lastExc' = ""
          /\ UNCHANGED crashedIn
       \/ /\ lastExc' = "yt"                       \* build() raises
          /\ IF Catches("yt")
             THEN /\ pc' = "yt_ret"
                  /\ yt' = [YtIdle EXCEPT !.last = "build_raise", !.ret = FALSE]
                  /\ UNCHANGED crashedIn
             ELSE /\ pc' = "crashed"
                  /\ crashedIn' = "yt"
                  /\ UNCHANGED yt
    /\ UNCHANGED <<cfgVars, protoVars, worldVars, s3_key, res, all_ok, status, copyRes, delRes,
                   runs, histVars>>

\* One pass of `while response is None: status, response = request.next_chunk()`
\* inside `for attempt in range(1, MAX_YT_RETRIES + 1)`, up to the call that
\* returns a response or raises.  Calls that return (status, None) only log
\* progress and change nothing.
YtNextChunk ==
    /\ pc = "yt_try"
    /\ \/ /\ yt' = [yt EXCEPT !.last = "id", !.ret = TRUE]     \* response with "id"
          /\ pc' = "yt_ret"
          /\ lastExc' = ""
          /\ UNCHANGED crashedIn
       \/ /\ yt' = [yt EXCEPT !.last = "noid", !.ret = FALSE]  \* response without "id"
          /\ pc' = "yt_ret"
          /\ lastExc' = ""
          /\ UNCHANGED crashedIn
       \/ /\ lastExc' = "yt"                                   \* next_chunk raises
          /\ IF ~Catches("yt")
             THEN /\ pc' = "crashed"
                  /\ crashedIn' = "yt"
                  /\ UNCHANGED yt
             ELSE /\ UNCHANGED crashedIn
                  /\ IF GiveUp(yt.attempt)
                     THEN /\ yt' = [yt EXCEPT !.raised = @ + 1, !.last = "raise",
                                              !.ret = FALSE]
                          /\ pc' = "yt_ret"
                     ELSE /\ yt' = [yt EXCEPT !.raised = @ + 1, !.last = "raise",
                                              !.attempt = @ + 1]
                          /\ pc' = pc
    /\ UNCHANGED <<cfgVars, protoVars, worldVars, s3_key, res, all_ok, status, copyRes, delRes,
                   runs, histVars>>

\* yt_ok = upload_to_youtube(...); `if not yt_ok: all_ok = False`
YtReturn ==
    /\ pc = "yt_ret"
    /\ res' = [res EXCEPT !["yt"] = Verdict(yt.ret)]
    /\ all_ok' = AllOkAfter(all_ok, yt.ret)
    /\ yt' = YtIdle
    /\ pc' = "fb"
    /\ UNCHANGED <<cfgVars, protoVars, worldVars, s3_key, status, copyRes, delRes, lastExc,
                   crashedIn, runs, histVars>>

\* upload_to_facebook, upload_to_instagram_reels / _video, upload_to_tiktok:
\* the protocol inside the try block ends true, false or with an exception.
AdapterStep(d) ==
    /\ pc = d
    /\ ShouldAttempt(d, all_ok)
    /\ \E o \in {"true", "false", "raise"} :
          /\ lastExc' = IF o = "raise" THEN d ELSE ""
          /\ IF o = "raise" /\ ~Catches(d)
             THEN /\ pc' = "crashed"
                  /\ crashedIn' = d
                  /\ UNCHANGED <<res, all_ok>>
             ELSE /\ res' = [res EXCEPT ![d] = Verdict(o = "true")]
                  /\ all_ok' = AllOkAfter(all_ok, o = "true")
                  /\ pc' = NextStage(d)
                  /\ UNCHANGED crashedIn
    /\ UNCHANGED <<cfgVars, protoVars, worldVars, s3_key, status, yt, copyRes, delRes, runs,
                   histVars>>

UploadToFacebook == AdapterStep("fb")
UploadToInstagram == AdapterStep("ig")
UploadToTiktok == AdapterStep("tt")

\* `if all_ok:` ... else `status = "SUCCESS" if all_ok else "FAILED"`
Decide ==
    /\ pc = "decide"
    /\ IF ShouldArchive(all_ok)
       THEN /\ pc' = "copy"
            /\ UNCHANGED status
       ELSE /\ pc' = "ret"
            /\ status' = StatusOf(all_ok)
    /\ lastExc' = ""
    /\ UNCHANGED <<cfgVars, protoVars, worldVars, s3_key, res, all_ok, yt, copyRes, delRes,
                   crashedIn, runs, histVars>>

\* archive_s3_object: s3.copy_object(... Key = posted/<key>)
Copy ==
    /\ pc = "copy"
    /\ \E o \in {"ok", "raise"} :
          /\ copyRes' = o
          /\ posted' = IF o = "ok" THEN posted \cup {s3_key} ELSE posted
          /\ pc' = IF DeleteAllowed(o) THEN "delete" ELSE "archive_err"
    /\ UNCHANGED <<cfgVars, protoVars, today, source, ingested, s3_key, res, all_ok, status, yt,
                   delRes, lastExc, crashedIn, runs, histVars>>

\* archive_s3_object: s3.delete_object(Key = key), then the status line
Delete ==
    /\ pc = "delete"
    /\ \E o \in {"ok", "raise"} :
          /\ delRes' = o
          /\ IF o = "ok"
             THEN /\ source' = AfterDelete(source, s3_key)
                  /\ pc' = IF copyRes = "ok" THEN "ret" ELSE "archive_err"
                  /\ status' = IF copyRes = "ok" THEN StatusOf(all_ok) ELSE status
             ELSE /\ pc' = "archive_err"
                  /\ UNCHANGED <<source, status>>
    /\ UNCHANGED <<cfgVars, protoVars, today, posted, ingested, s3_key, res, all_ok, yt, copyRes,
                   lastExc, crashedIn, runs, histVars>>

\* `except Exception as e: ... all_ok = False`, then the status line
ArchiveError ==
    /\ pc = "archive_err"
    /\ all_ok' = OnArchiveError(all_ok)
    /\ status' = StatusOf(all_ok')
    /\ pc' = "ret"
    /\ UNCHANGED <<cfgVars, protoVars, worldVars, s3_key, res, yt, copyRes, delRes, lastExc,
                   crashedIn, runs, histVars>>

\* `return status` (or `return "SKIPPED"`)
Return ==
    /\ pc = "ret"
    /\ succeeded' = IF status = "SUCCESS" THEN succeeded \cup {s3_key} ELSE succeeded
    /\ prev' = IF s3_key = NoKey THEN NoPrev
               ELSE [key |-> s3_key, day |-> today, oks |-> OksOfRun, status |-> status]
    /\ ResetRun
    /\ pc' = "idle"
    /\ UNCHANGED <<cfgVars, protoVars, worldVars, crashedIn, runs>>

\* The process is killed inside run_slot (runner timeout, power loss).
Kill ==
    /\ pc \notin {"idle", "crashed"}
    /\ prev' = IF s3_key = NoKey THEN NoPrev
               ELSE [key |-> s3_key, day |-> today, status |-> "",
                     oks |-> OksOfRun \cup (IF pc = "yt_ret" /\ yt.ret THEN {"yt"} ELSE {})]
    /\ ResetRun
    /\ pc' = "crashed"
    /\ crashedIn' = "killed"
    /\ UNCHANGED <<cfgVars, protoVars, worldVars, runs, succeeded>>

\* The scheduler starts the next process.
Restart ==
    /\ pc = "crashed"
    /\ pc' = "idle"
    /\ crashedIn' = ""
    /\ s3_key' = NoKey
    /\ res' = NoRes
    /\ all_ok' = TRUE
    /\ lastExc' = ""
    /\ UNCHANGED <<cfgVars, protoVars, worldVars, status, yt, copyRes, delRes, runs, histVars>>

Next ==
    \/ Ingest
    \/ NextDay
    \/ Select
    \/ SelectRaises
    \/ Download
    \/ SkipDestination
    \/ YtBuild
    \/ YtNextChunk
    \/ YtReturn
    \/ UploadToFacebook
    \/ UploadToInstagram
    \/ UploadToTiktok
    \/ Decide
    \/ Copy
    \/ Delete
    \/ ArchiveError
    \/ Return
    \/ Kill
    \/ Restart

Spec == Init /\ [][Next]_vars

\* One invocation of run_slot.
NextSlot ==
    \/ Ingest
    \/ NextDay
    \/ runs = 0 /\ Select
    \/ runs = 0 /\ SelectRaises
    \/ Download
    \/ SkipDestination
    \/ YtBuild
    \/ YtNextChunk
    \/ YtReturn
    \/ UploadToFacebook
    \/ UploadToInstagram
    \/ UploadToTiktok
    \/ Decide
    \/ Copy
    \/ Delete
    \/ ArchiveError
    \/ Return
    \/ Kill
    \/ Restart

SpecSlot == InitSlot /\ [][NextSlot]_vars


(***************************************************************************)
(* upload_to_facebook and fb_chunk_upload (src/fb_chunk_upload.py)         *)
(***************************************************************************)

\* HTTP status codes of the Graph API responses.
StatusCodes == {200, 201, 500}
\* Offsets the server may name: inside the file and one past its end.
Offsets == 0..(MaxSize + 1)

\* Mutant: any 2xx counts as success.
IsOkLoose(code) == code \in 200..299

\* `if resp.status_code != 200: ... return False`
IsOk(code) == code = 200

\* Mutant: off by one, the last byte is never sent.
LoopDoneEarly(s, e) == e - s <= 1

\* `if start_offset == end_offset: break`
LoopDone(s, e) == s = e

\* Mutant: the test of the chunk is missing.
EmptyChunkNever(n) == FALSE

\* `if not chunk:` for a chunk of n bytes
EmptyChunk(n) == n = 0

\* f.seek(start_offset); chunk = f.read(end_offset - start_offset): the number
\* of bytes read (a negative length reads to the end of the file).
ChunkRead(size, s, e) ==
    IF s >= size THEN 0
    ELSE IF e - s < 0 THEN size - s
    ELSE IF e - s <= size - s THEN e - s ELSE size - s

\* The server follows the chunk protocol: the start response names a first
\* range [0, e) of the file; each transfer response advances start by the
\* chunk just sent and names the next range, empty exactly at the end.
StartConforms(size, s, e) == s = 0 /\ e <= size /\ (e = 0 <=> size = 0)
TransferConforms(size, sentEnd, s, e) ==
    s = sentEnd /\ s <= e /\ e <= size /\ (e = s <=> s = size)

\* fb_chunk_upload returns r.
FbRet(r) == [fb EXCEPT !.ret = r, !.pc = "returned"]

\* upload_to_facebook: `ok = fb_chunk_upload(...)`; fb_chunk_upload up to the
\* start request: `if not os.path.exists(file_path): return False`.
FbCall ==
    /\ fb.pc = "idle"
    /\ fb' = IF fb.exists
             THEN [fb EXCEPT !.calls = @ + 1, !.pc = "start"]
             ELSE [fb EXCEPT !.calls = @ + 1, !.ret = "false", !.pc = "returned"]
    /\ UNCHANGED <<cfgVars, worldVars, pc, runVars, crashedIn, runs, histVars, mt, igv, tt,
                   ig, cl, mn>>

\* 1) START phase: requests.post(upload_phase = start) and its response.
FbStart ==
    /\ fb.pc = "start"
    /\ \/ fb' = [FbRet("raise") EXCEPT !.starts = @ + 1]
       \/ \E code \in StatusCodes, s0 \in Offsets, e0 \in Offsets :
             LET sent == [fb EXCEPT !.starts = @ + 1,
                                    !.oks = IF code = 200 THEN @ + 1 ELSE @,
                                    !.badPhase = IF code = 200 THEN @ ELSE "start"]
             IN IF ~IsOk(code)
                THEN fb' = [sent EXCEPT !.ret = "false", !.pc = "returned"]
                ELSE fb' = [sent EXCEPT !.s = s0, !.e = e0, !.pc = "loop",
                                        !.ranges = IF s0 # e0 THEN @ + 1 ELSE @,
                                        !.conform = StartConforms(fb.size, s0, e0)]
    /\ UNCHANGED <<cfgVars, worldVars, pc, runVars, crashedIn, runs, histVars, mt, igv, tt,
                   ig, cl, mn>>

\* 2) TRANSFER phase: one pass of `while True:`.
FbTransfer ==
    /\ fb.pc = "loop"
    /\ IF LoopDone(fb.s, fb.e)
       THEN fb' = [fb EXCEPT !.pc = "finish"]
       ELSE IF EmptyChunk(ChunkRead(fb.size, fb.s, fb.e))
       THEN fb' = [FbRet("false") EXCEPT !.empty = TRUE]
       ELSE /\ fb.transfers < MaxTransfers
            /\ \/ fb' = [FbRet("raise") EXCEPT
                            !.transfers = @ + 1,
                            !.zeroPosts = IF ChunkRead(fb.size, fb.s, fb.e) = 0
                                          THEN @ + 1 ELSE @]
               \/ \E code \in StatusCodes, s1 \in Offsets, e1 \in Offsets :
                     LET sent == [fb EXCEPT
                                    !.transfers = @ + 1,
                                    !.zeroPosts =
                                        IF ChunkRead(fb.size, fb.s, fb.e) = 0
                                        THEN @ + 1 ELSE @,
                                    !.oks = IF code = 200 THEN @ + 1 ELSE @,
                                    !.badPhase = IF code = 200 THEN @ ELSE "transfer"]
                     IN IF ~IsOk(code)
                        THEN fb' = [sent EXCEPT !.ret = "false", !.pc = "returned"]
                        ELSE fb' = [sent EXCEPT
                                      !.s = s1, !.e = e1,
                                      !.ranges = IF s1 # e1 THEN @ + 1 ELSE @,
                                      !.conform = @ /\ TransferConforms(fb.size,
                                                          fb.e, s1, e1)]
    /\ UNCHANGED <<cfgVars, worldVars, pc, runVars, crashedIn, runs, histVars, mt, igv, tt,
                   ig, cl, mn>>

\* 3) FINISH phase: requests.post(upload_phase = finish) and its response.
FbFinish ==
    /\ fb.pc = "finish"
    /\ \/ fb' = [FbRet("raise") EXCEPT !.finishes = @ + 1]
       \/ \E code \in StatusCodes :
             fb' = [fb EXCEPT !.finishes = @ + 1,
                              !.oks = IF code = 200 THEN @ + 1 ELSE @,
                              !.badPhase = IF code = 200 THEN @ ELSE "finish",
                              !.ret = IF IsOk(code) THEN "true" ELSE "false",
                              !.pc = "returned"]
    /\ UNCHANGED <<cfgVars, worldVars, pc, runVars, crashedIn, runs, histVars, mt, igv, tt,
                   ig, cl, mn>>

\* upload_to_facebook: `except Exception: return False`, `if ok: return True`,
\* `return False`.
FbReturn ==
    /\ fb.pc = "returned"
    /\ fb' = [fb EXCEPT !.up = IF fb.ret = "true" THEN "true" ELSE "false",
                        !.pc = "done"]
    /\ UNCHANGED <<cfgVars, worldVars, pc, runVars, crashedIn, runs, histVars, mt, igv, tt,
                   ig, cl, mn>>

(***************************************************************************)
(* upload_to_instagram_reels / upload_to_instagram_video: the container    *)
(* protocol.  The two differ in the slot type they accept, the media type  *)
(* sent and the sleep between polls.                                       *)
(***************************************************************************)

SlotTypes == {"short", "standard"}
\* status_code of a poll's body; "none" when the body is not JSON or has no
\* status_code.
PollStatus == {"none", "IN_PROGRESS", "FINISHED", "ERROR"}

\* What the Graph API answers to a request: an exception of the call, or a
\* response with an HTTP status and, for a poll, a status_code.
IgResponses == [raise : BOOLEAN, code : StatusCodes, st : PollStatus]

\* `for sec in [...]:` of upload_to_instagram_reels and of
\* upload_to_instagram_video.
ReelsPollSecs == <<0, 5, 11, 17, 23, 29, 35, 41, 47, 53>>
VideoPollSecs == <<0, 7, 15, 23, 31, 39, 47, 55, 63, 71>>

\* Mutant: the long form polls once more.
IgPollSecsLonger(variant) ==
    IF variant = "reels" THEN ReelsPollSecs ELSE Append(VideoPollSecs, 79)

IgPollSecs(variant) == IF variant = "reels" THEN ReelsPollSecs ELSE VideoPollSecs

\* time.sleep(6), time.sleep(8)
IgSleep(variant) == IF variant = "reels" THEN 6 ELSE 8

\* "media_type": "REELS", "media_type": "VIDEO"
MediaType(variant) == IF variant = "reels" THEN "REELS" ELSE "VIDEO"

\* run_slot: `if slot["type"] == "short": upload_to_instagram_reels(...)
\* else: upload_to_instagram_video(...)`
IgVariant(type) == IF type = "short" THEN "reels" ELSE "video"

\* `if slot["type"] != "short": return False`,
\* `if slot["type"] != "standard": return False`
IgAccepts(variant, type) ==
    IF variant = "reels" THEN type = "short" ELSE type = "standard"

\* Mutant: the check behind the loop is missing.
ReadyToPublishAlways(last) == TRUE

\* `if status_data.get("status_code") != "FINISHED": return False`
ReadyToPublish(last) == last = "FINISHED"

\* The `for sec in [...]:` of the variant has run out.
PollsExhausted(variant, n) == n >= Len(IgPollSecs(variant))

\* `if status_data.get("status_code") == "FINISHED": break`
BreaksPolling(st) == st = "FINISHED"

\* The adapter r returns v.
IgRet(r, v) == [r EXCEPT !.ret = v, !.pc = "done"]

\* run_slot calls the adapter of the slot's type; the adapter's type guard.
IgCalled(r) ==
    LET v == IgVariant(r.type)
    IN IF IgAccepts(v, r.type)
       THEN [r EXCEPT !.variant = v, !.pc = "create"]
       ELSE [IgRet(r, "false") EXCEPT !.variant = v]

\* generate_presigned_url, requests.post(create_url) and its response.
IgCreated(r, resp) ==
    LET sent == [r EXCEPT !.creates = @ + 1, !.media = MediaType(r.variant)]
    IN IF resp.raise \/ resp.code # 200
       THEN IgRet(sent, "false")
       ELSE [sent EXCEPT !.pc = "poll"]

\* One pass of the polling loop: sleep, requests.get(status_url), the break
\* test; behind the last pass, the check that guards the publish.
IgPolled(r, resp) ==
    LET slept == [r EXCEPT !.slept = @ + IgSleep(r.variant), !.polls = @ + 1]
        polled == [slept EXCEPT !.last = resp.st,
                                !.errorAt = IF resp.st = "ERROR" /\ @ = 0
                                            THEN r.polls + 1 ELSE @]
    IN IF resp.raise
       THEN IgRet(slept, "false")
       ELSE IF BreaksPolling(resp.st) \/ PollsExhausted(r.variant, polled.polls)
       THEN IF ReadyToPublish(resp.st)
            THEN [polled EXCEPT !.pc = "publish"]
            ELSE IgRet(polled, "false")
       ELSE polled

\* requests.post(pub_url, creation_id = cid) and its response.
IgPublished(r, resp) ==
    LET sent == [r EXCEPT !.publishes = @ + 1]
    IN IgRet(sent, IF ~resp.raise /\ resp.code = 200 THEN "true" ELSE "false")

\* The next request of the adapter and its answer.
IgStep(r, resp) ==
    CASE r.pc = "create"  -> IgCreated(r, resp)
      [] r.pc = "poll"    -> IgPolled(r, resp)
      [] r.pc = "publish" -> IgPublished(r, resp)
      [] OTHER            -> r

IgCall ==
    /\ ig.pc = "idle"
    /\ ig' = IgCalled(ig)
    /\ UNCHANGED <<cfgVars, worldVars, pc, runVars, crashedIn, runs, histVars, mt, igv, tt,
                   fb, cl, mn>>

IgCreate ==
    /\ ig.pc = "create"
    /\ \E resp \in IgResponses : ig' = IgCreated(ig, resp)
    /\ UNCHANGED <<cfgVars, worldVars, pc, runVars, crashedIn, runs, histVars, mt, igv, tt,
                   fb, cl, mn>>

IgPoll ==
    /\ ig.pc = "poll"
    /\ \E resp \in IgResponses : ig' = IgPolled(ig, resp)
    /\ UNCHANGED <<cfgVars, worldVars, pc, runVars, crashedIn, runs, histVars, mt, igv, tt,
                   fb, cl, mn>>

IgPublish ==
    /\ ig.pc = "publish"
    /\ \E resp \in IgResponses : ig' = IgPublished(ig, resp)
    /\ UNCHANGED <<cfgVars, worldVars, pc, runVars, crashedIn, runs, histVars, mt, igv, tt,
                   fb, cl, mn>>

(***************************************************************************)
(* The two Instagram adapters side by side: a short slot and a standard    *)
(* slot are published with the same answers of the Graph API.              *)
(***************************************************************************)
IgActive(r) == r.pc \in {"create", "poll", "publish"}

PairCall ==
    /\ ig.pc = "idle"
    /\ igv.pc = "idle"
    /\ ig' = IgCalled(ig)
    /\ igv' = IgCalled(igv)
    /\ UNCHANGED <<cfgVars, worldVars, pc, runVars, crashedIn, runs, histVars, mt, tt,
                   fb, cl, mn>>

PairStep ==
    /\ IgActive(ig) \/ IgActive(igv)
    /\ \E resp \in IgResponses :
          /\ ig' = IgStep(ig, resp)
          /\ igv' = IgStep(igv, resp)
    /\ UNCHANGED <<cfgVars, worldVars, pc, runVars, crashedIn, runs, histVars, mt, tt,
                   fb, cl, mn>>

InitIgPair ==
    /\ slot = SLOTS
    /\ InitRest
    /\ plat \in [Dest -> BOOLEAN]
    /\ plat["ig"]
    /\ fb = FbIdle
    /\ cl = ClIdle
    /\ mn = MnIdle
    /\ mt = MtIdle
    /\ ig = [IgIdle EXCEPT !.type = "short"]
    /\ igv = [IgIdle EXCEPT !.type = "standard"]
    /\ tt = TtIdle

NextIgPair ==
    \/ PairCall
    \/ PairStep

SpecIgPair == InitIgPair /\ [][NextIgPair]_vars

\* The adapters one at a time: an upload to Facebook or a publish to Instagram,
\* for any local file and either slot type.
AllOn == [d \in Dest |-> TRUE]

InitAdapters ==
    /\ slot = SLOTS
    /\ InitRest
    /\ AuxIdle
    /\ plat = AllOn
    /\ fb \in {[FbIdle EXCEPT !.exists = x, !.size = n] :
                   x \in BOOLEAN, n \in 0..MaxSize}
    /\ ig \in {[IgIdle EXCEPT !.type = t] : t \in SlotTypes}
    /\ cl = ClIdle
    /\ mn = MnIdle

NextAdapters ==
    \/ ig.pc = "idle" /\ FbCall
    \/ FbStart
    \/ FbTransfer
    \/ FbFinish
    \/ FbReturn
    \/ fb.pc = "idle" /\ IgCall
    \/ IgCreate
    \/ IgPoll
    \/ IgPublish

SpecAdapters == InitAdapters /\ [][NextAdapters]_vars

(***************************************************************************)
(* get_latest_video_key over any content of the prefix: any set of objects *)
(* (videos and others, of any date), on any day.                           *)
(***************************************************************************)
InitList ==
    /\ slot = SLOTS
    /\ plat = AllOn
    /\ today \in 1..MaxDay
    /\ source \in SUBSET Keys
    /\ ingested = source
    /\ posted = {}
    /\ RunIdle
    /\ ProtoIdle

NextList ==
    \/ runs = 0 /\ Select
    \/ runs = 0 /\ SelectRaises

SpecList == InitList /\ [][NextList]_vars

(***************************************************************************)
(* cleanup_posted_objects                                                  *)
(***************************************************************************)

\* datetime.now(timezone.utc) and the LastModified of the archived objects,
\* in hours: ages of 46 to 50 hours around the retention window.
Nows == {100, 101}
LastModifieds == 51..54

PostedListings == UNION {[1..n -> LastModifieds] : n \in 0..MaxArchived}
SourceListings == UNION {[1..n -> LastModifieds] : n \in 0..MaxObjs}

\* The bucket in key order: "posted/..." sorts before every slot prefix.
BucketLm(c) == c.lm \o c.src
LocOf(c, i) == IF i <= Len(c.lm) THEN "posted" ELSE "source"

\* Mutant: the listing is not restricted to a prefix.
UnderPrefixAny(loc) == TRUE

\* prefix = "posted/"; kwargs = {"Bucket": S3_BUCKET_NAME, "Prefix": prefix}
UnderPrefix(loc) == loc = "posted"

\* The objects list_objects_v2 enumerates for these kwargs, page by page.
Listed(c) == {i \in 1..Len(BucketLm(c)) : UnderPrefix(LocOf(c, i))}

\* Mutant: every request starts at the head of the listing.
StartOfFirst(token) == 1

\* `if continuation_token: kwargs["ContinuationToken"] = continuation_token`:
\* the page starts at the head of the listing, or where the token points.
StartOf(token) == IF token = 0 THEN 1 ELSE token

\* `if not resp.get("IsTruncated"): break`
LeavesLoop(isTruncated) == ~isTruncated

\* Mutant: an object exactly max_age_hours old is deleted too.
TooOldOrEqual(last_modified, cutoff) == last_modified <= cutoff

\* `if last_modified < cutoff:`
TooOld(last_modified, cutoff) == last_modified < cutoff

\* cutoff = datetime.now(timezone.utc) - timedelta(hours=max_age_hours)
ClEnter == [cl EXCEPT !.pc = "listing", !.cutoff = cl.now - MAX_AGE_HOURS]

ClStart ==
    /\ cl.pc = "idle"
    /\ mn.pc = "idle"
    /\ cl' = ClEnter
    /\ UNCHANGED <<cfgVars, worldVars, pc, runVars, crashedIn, runs, histVars, mt, igv, tt,
                   fb, ig, mn>>

\* One pass of `while True:`: list_objects_v2 answers with the page the
\* token asks for (S3 may send fewer than MaxKeys keys), marked truncated
\* when keys remain and then carrying NextContinuationToken, or it raises,
\* which nothing catches; every object of the page older than the cutoff
\* gets a delete_object call, whose exception is caught and logged;
\* `if not resp.get("IsTruncated"): break`, else the token is kept.
ClPage ==
    /\ cl.pc = "listing"
    /\ \/ cl' = [cl EXCEPT !.pc = "died"]
       \/ \E n \in 0..MaxKeys :
             LET all   == BucketLm(cl)
                 total == Cardinality(Listed(cl))
                 first == StartOf(cl.token)
                 last  == first + n - 1
                 page  == first..last
                 old   == {i \in page : TooOld(all[i], cl.cutoff)}
                 isTruncated == last < total
             IN /\ last <= total
                /\ n = 0 => first > total
                /\ \E bad \in SUBSET old :
                      cl' = [cl EXCEPT !.next = last + 1,
                                       !.token = IF LeavesLoop(isTruncated)
                                                 THEN @ ELSE last + 1,
                                       !.issued = @ \cup old,
                                       !.failed = @ \cup bad,
                                       !.gone = @ \cup (old \ bad),
                                       !.seen = @ \cup page,
                                       !.twice = @ \/ (page \cap cl.seen # {}),
                                       !.pages = @ + 1,
                                       !.truncs = @ + (IF isTruncated THEN 1 ELSE 0),
                                       !.pc = IF LeavesLoop(isTruncated)
                                              THEN "done" ELSE "listing"]
    /\ UNCHANGED <<cfgVars, worldVars, pc, runVars, crashedIn, runs, histVars, mt, igv, tt,
                   fb, ig, mn>>

InitCleanup ==
    /\ slot = SLOTS
    /\ InitRest
    /\ AuxIdle
    /\ plat = AllOn
    /\ fb = FbIdle
    /\ ig = IgIdle
    /\ mn = MnIdle
    /\ cl \in {[ClIdle EXCEPT !.now = t, !.lm = f, !.src = g] :
                   t \in Nows, f \in PostedListings,
                   g \in {h \in SourceListings : Len(h) <= 1}}

NextCleanup ==
    \/ ClStart
    \/ ClPage

SpecCleanup == InitCleanup /\ [][NextCleanup]_vars

(***************************************************************************)
(* __main__: the loop over SLOTS, the summary, the cleanup.                *)
(***************************************************************************)

\* SLOT_FILTER: unset, the name of a slot, or a name no slot has.
Filters == {""} \cup SlotNameSet \cup {"reel_9pm"}
SlotStatus == {"SKIPPED", "SUCCESS", "FAILED"}

\* `if SLOT_FILTER and slot["name"] != SLOT_FILTER: continue`
SkipsSlot(filter, name) == filter # "" /\ name # filter

\* Mutant: the bucket name is not checked.
MissingCoreButBucket(env) == (CoreEnv \ {"S3_BUCKET_NAME"}) \ env

\* validate_core_env_or_exit: the list `missing`.
MissingCore(env) == CoreEnv \ env

\* validate_core_env_or_exit() (`if missing: raise SystemExit(...)`, exit
\* status 1); platform_status(); run_summary = {}
MainStart ==
    /\ mn.pc = "idle"
    /\ cl.pc = "idle"
    /\ mn' = IF MissingCore(mn.env) # {}
             THEN [mn EXCEPT !.pc = "died", !.died = "env", !.exit = "nonzero"]
             ELSE [mn EXCEPT !.pc = "loop"]
    /\ UNCHANGED <<cfgVars, worldVars, pc, runVars, crashedIn, runs, histVars, mt, igv, tt,
                   fb, ig, cl>>

\* archive_s3_object: copy_object puts posted/<key> into the bucket, last
\* modified at the time of the copy.
Archive(c) == [c EXCEPT !.lm = Append(@, c.now), !.fresh = @ \cup {Len(c.lm) + 1}]

\* What run_slot's status says of the copy: SUCCESS is returned behind a
\* whole archive_s3_object, SKIPPED before any; FAILED is returned without
\* an archive, or when copy_object or delete_object raised.
CopyMade(st, copied) ==
    /\ st = "SUCCESS" => copied
    /\ st = "SKIPPED" => ~copied

\* One pass of `for slot in SLOTS:`.  run_slot returns a status, or raises
\* what get_latest_video_key or download_s3_object raised: nothing catches it.
MainSlot ==
    /\ mn.pc = "loop"
    /\ mn.i <= Len(SlotNames)
    /\ LET name == SlotNames[mn.i]
       IN IF SkipsSlot(mn.filter, name)
          THEN mn' = [mn EXCEPT !.i = @ + 1] /\ UNCHANGED cl
          ELSE \/ \E st \in SlotStatus, copied \in BOOLEAN :
                     /\ CopyMade(st, copied)
                     /\ mn' = [mn EXCEPT !.i = @ + 1, !.ran = @ + 1,
                                         !.summary[name] = st]
                     /\ cl' = IF copied THEN Archive(cl) ELSE cl
               \/ /\ mn' = [mn EXCEPT !.ran = @ + 1, !.pc = "died",
                                      !.died = "run_slot", !.exit = "nonzero"]
                  /\ UNCHANGED cl
    /\ UNCHANGED <<cfgVars, worldVars, pc, runVars, crashedIn, runs, histVars, mt, igv, tt,
                   fb, ig>>

\* 4) Summary: the loop is over, run_summary is logged.
MainSummary ==
    /\ mn.pc = "loop"
    /\ mn.i > Len(SlotNames)
    /\ mn' = [mn EXCEPT !.pc = "summary"]
    /\ UNCHANGED <<cfgVars, worldVars, pc, runVars, crashedIn, runs, histVars, mt, igv, tt,
                   fb, ig, cl>>

\* 5) cleanup_posted_objects(max_age_hours=48) is called ...
MainCleanup ==
    /\ mn.pc = "summary"
    /\ mn' = [mn EXCEPT !.pc = "cleanup", !.cleanups = @ + 1]
    /\ cl' = ClEnter
    /\ UNCHANGED <<cfgVars, worldVars, pc, runVars, crashedIn, runs, histVars, mt, igv, tt,
                   fb, ig>>

\* ... and returns, or its list_objects_v2 raised: the process ends.
MainExit ==
    /\ mn.pc = "cleanup"
    /\ cl.pc \in {"done", "died"}
    /\ mn' = IF cl.pc = "done" THEN [mn EXCEPT !.pc = "done", !.exit = "zero"]
             ELSE [mn EXCEPT !.pc = "died", !.died = "cleanup",
                             !.exit = "nonzero"]
    /\ UNCHANGED <<cfgVars, worldVars, pc, runVars, crashedIn, runs, histVars, mt, igv, tt,
                   fb, ig, cl>>

\* The process, for any SLOT_FILTER and at most one object under posted/.
InitMain ==
    /\ slot = SLOTS
    /\ InitRest
    /\ AuxIdle
    /\ plat = AllOn
    /\ fb = FbIdle
    /\ ig = IgIdle
    /\ mn \in {[MnIdle EXCEPT !.filter = f, !.env = v] :
                   f \in Filters, v \in SUBSET CoreEnv}
    /\ cl \in {[ClIdle EXCEPT !.now = t, !.lm = f, !.src = h] :
                   t \in Nows, f \in {g \in PostedListings : Len(g) <= 1},
                   h \in {g \in SourceListings : Len(g) <= 1}}

NextMain ==
    \/ MainStart
    \/ MainSlot
    \/ MainSummary
    \/ MainCleanup
    \/ ClPage
    \/ MainExit

SpecMain == InitMain /\ [][NextMain]_vars

(***************************************************************************)
(* parse_metadata_from_key.  A key is a sequence of tokens: a date token   *)
(* stands for ten characters YYYY-MM-DD, "sep" for " - ", "w" for a word   *)
(* of the title, "/" for the path separator, ".mp4" and ".mov" for an      *)
(* extension.                                                              *)
(***************************************************************************)
DateTokens == {"D1", "D2"}
ExtTokens == {".mp4", ".mov"}
NameTokens == DateTokens \cup ExtTokens \cup {"sep", "w", "/"}
KeyStrings == UNION {[1..n -> NameTokens] : n \in 1..MaxName}

\* os.path.basename(key): what follows the last "/".
RECURSIVE Basename(_)
Basename(k) ==
    IF \E i \in 1..Len(k) : k[i] = "/"
    THEN Basename(Tail(k))
    ELSE k

\* re.search(r"\d{4}-\d{2}-\d{2}", base): the first date token, or no match.
RECURSIVE DateMatch(_)
DateMatch(b) ==
    IF b = << >> THEN ""
    ELSE IF Head(b) \in DateTokens THEN Head(b)
    ELSE DateMatch(Tail(b))

\* re.sub(r"\.mp4$", "", base)
StripMp4(b) ==
    IF b # << >> /\ b[Len(b)] = ".mp4" THEN SubSeq(b, 1, Len(b) - 1) ELSE b

\* fdate: the matched date, else str(date.today()).
DateOf(b) == IF DateMatch(b) # "" THEN DateMatch(b) ELSE "TODAY"

ParseMetadata ==
    /\ mt.pc = "idle"
    /\ LET base == Basename(mt.key)
       IN mt' = [mt EXCEPT !.pc = "done",
                           !.date = DateOf(base),
                           !.title = StripMp4(base)]
    /\ UNCHANGED <<cfgVars, worldVars, pc, runVars, crashedIn, runs, histVars,
                   fb, ig, cl, mn, igv, tt>>

InitMeta ==
    /\ slot = SLOTS
    /\ InitRest
    /\ plat = AllOn
    /\ fb = FbIdle
    /\ ig = IgIdle
    /\ igv = IgIdle
    /\ tt = TtIdle
    /\ cl = ClIdle
    /\ mn = MnIdle
    /\ mt \in {[MtIdle EXCEPT !.key = k] : k \in KeyStrings}

NextMeta == ParseMetadata

SpecMeta == InitMeta /\ [][NextMeta]_vars

(***************************************************************************)
(* upload_to_tiktok and post_video_to_tiktok (src/tiktok_poster.py)        *)
(***************************************************************************)

\* The helpers of post_video_to_tiktok in the order of its body.
TtOrder == <<"creator_info", "init", "upload", "status">>

\* error.code of a JSON body and data.status of a status body.
TtCodes == {"ok", "access_token_invalid", "rate_limit_exceeded"}
PublishStatus == {"PROCESSING_UPLOAD", "PUBLISH_COMPLETE", "FAILED"}

PublishIds == {"p1", "p2"}

\* What TikTok answers to a request: the call raises, or a response comes
\* with resp.ok or not, a body that is JSON or not, its error.code, its
\* "data" present or not and, in it, publish_id for init and status for the
\* status fetch.
TtResponses == [raise : BOOLEAN, ok : BOOLEAN, json : BOOLEAN, code : TtCodes,
                data : BOOLEAN, publish_id : PublishIds, status : PublishStatus]

\* Why a helper raises on this answer ("" when it returns), tested in the
\* order of the helper's body.  get_creator_info, init_direct_post and
\* fetch_publish_status: resp.json() fails, `error.get("code") != "ok"`,
\* data["data"] is missing; upload_video_file: `if not resp.ok`.
TtFault(step, resp) ==
    IF resp.raise THEN "raise"
    ELSE IF step = "upload" THEN (IF resp.ok THEN "" ELSE "http")
    ELSE IF ~resp.json THEN "non-json"
    ELSE IF resp.code # "ok" THEN "code"
    ELSE IF ~resp.data THEN "no-data"
    ELSE ""

\* `raise TikTokError(...)` of the helpers; anything else is another
\* exception (requests', KeyError).
TtExc(why) == IF why \in {"raise", "no-data"} THEN "Exception" ELSE "TikTokError"

\* Mutant: a publish that TikTok reports as FAILED counts as a failure.
TtVerdictByStatus(returned, pub) == returned /\ pub # "FAILED"

\* upload_to_tiktok: `publish_id, status = post_video_to_tiktok(...)`,
\* `return True`; `except TikTokError: return False`,
\* `except Exception: return False`.
TtVerdict(returned, pub) == returned

\* The helper after this one in post_video_to_tiktok.
TtAfter(step) ==
    CASE step = "creator_info" -> "init"
      [] step = "init"         -> "upload"
      [] step = "upload"       -> "status"
      [] OTHER                 -> "done"

\* The helper raised: the exception leaves post_video_to_tiktok and is
\* caught in upload_to_tiktok.
TtRaised(r, step, why) ==
    [r EXCEPT !.failedAt = step, !.why = why, !.exc = TtExc(why),
              !.ret = IF TtVerdict(FALSE, r.pub) THEN "true" ELSE "false",
              !.pc = "done"]

\* The helper returned: the next one is called, or post_video_to_tiktok
\* returns (publish_id, status).
TtReturned(r, step, resp) ==
    LET nxt == TtAfter(step)
        c   == [r EXCEPT !.completed = @ + 1, !.pc = nxt,
                         !.publish_id = IF step = "init" THEN resp.publish_id ELSE @,
                         !.pub = IF step = "status" THEN resp.status ELSE @]
    IN IF nxt = "done"
       THEN [c EXCEPT !.ret = IF TtVerdict(TRUE, c.pub) THEN "true" ELSE "false"]
       ELSE c

\* One helper that sends its request at once and judges the answer: the
\* upload announces file_size bytes ("Content-Range"), the status fetch asks
\* for the publish_id that init returned.
TtStep(r, step, resp) ==
    LET why  == TtFault(step, resp)
        sent == [r EXCEPT !.steps = Append(@, step), !.reqs = Append(@, step),
                          !.put = IF step = "upload" THEN r.size ELSE @,
                          !.fetched = IF step = "status" THEN r.publish_id ELSE @,
                          !.code = IF why = "code" THEN resp.code ELSE @]
    IN IF why # ""
       THEN TtRaised(sent, step, why)
       ELSE TtReturned(sent, step, resp)

\* `if not (TIKTOK_ACCESS_TOKEN and TIKTOK_ENABLED_FLAG): return False`
TtCall ==
    /\ tt.pc = "idle"
    /\ tt' = IF tt.token /\ tt.flag
             THEN [tt EXCEPT !.pc = "creator_info"]
             ELSE [tt EXCEPT !.pc = "done", !.ret = "false"]
    /\ UNCHANGED <<cfgVars, worldVars, pc, runVars, crashedIn, runs, histVars, mt, igv,
                   fb, ig, cl, mn>>

\* info = get_creator_info()
GetCreatorInfo ==
    /\ tt.pc = "creator_info"
    /\ \E resp \in TtResponses : tt' = TtStep(tt, "creator_info", resp)
    /\ UNCHANGED <<cfgVars, worldVars, pc, runVars, crashedIn, runs, histVars, mt, igv,
                   fb, ig, cl, mn>>

\* publish_id, upload_url, file_size = init_direct_post(video_path, title):
\* `if not path.is_file(): raise TikTokError` comes before the request.
InitDirectPost ==
    /\ tt.pc = "init"
    /\ IF ~tt.file
       THEN tt' = TtRaised([tt EXCEPT !.steps = Append(@, "init")], "init", "no-file")
       ELSE \E resp \in TtResponses : tt' = TtStep(tt, "init", resp)
    /\ UNCHANGED <<cfgVars, worldVars, pc, runVars, crashedIn, runs, histVars, mt, igv,
                   fb, ig, cl, mn>>

\* upload_video_file(upload_url, video_path, file_size)
UploadVideoFile ==
    /\ tt.pc = "upload"
    /\ \E resp \in TtResponses : tt' = TtStep(tt, "upload", resp)
    /\ UNCHANGED <<cfgVars, worldVars, pc, runVars, crashedIn, runs, histVars, mt, igv,
                   fb, ig, cl, mn>>

\* status = fetch_publish_status(publish_id); return publish_id, status
FetchPublishStatus ==
    /\ tt.pc = "status"
    /\ \E resp \in TtResponses : tt' = TtStep(tt, "status", resp)
    /\ UNCHANGED <<cfgVars, worldVars, pc, runVars, crashedIn, runs, histVars, mt, igv,
                   fb, ig, cl, mn>>

\* One call of upload_to_tiktok, for any setting of the token and the flag
\* and a local file that is there or not.
InitTiktok ==
    /\ slot = SLOTS
    /\ InitRest
    /\ plat = AllOn
    /\ fb = FbIdle
    /\ ig = IgIdle
    /\ igv = IgIdle
    /\ cl = ClIdle
    /\ mn = MnIdle
    /\ mt = MtIdle
    /\ tt \in {[TtIdle EXCEPT !.token = t, !.flag = g, !.file = f, !.size = n] :
                   t \in BOOLEAN, g \in BOOLEAN, f \in BOOLEAN, n \in 0..MaxSize}
    /\ tt.file \/ tt.size = 0

NextTiktok ==
    \/ TtCall
    \/ GetCreatorInfo
    \/ InitDirectPost
    \/ UploadVideoFile
    \/ FetchPublishStatus

SpecTiktok == InitTiktok /\ [][NextTiktok]_vars

(***************************************************************************)
(* Vocabulary of the properties.                                           *)
(***************************************************************************)

Running == pc \notin {"idle", "crashed"}
HasKey == s3_key # NoKey
EnabledSet == {d \in Dest : EnabledFor(d)}
AllEnabledOk == \A d \in Dest : EnabledFor(d) => res[d] = "ok"
Returning == pc = "ret" /\ HasKey
\* The artifact is at posted/<key> and no longer under the slot prefix.
Archived == s3_key \in posted /\ s3_key \notin source
NoArchiveError == copyRes # "raise" /\ delRes # "raise"

\* The positions of run_slot behind destination d's block.
AfterTt == {"decide", "copy", "delete", "archive_err"}
Past(d) ==
    CASE d = "tt" -> AfterTt
      [] d = "ig" -> AfterTt \cup {"tt"}
      [] d = "fb" -> AfterTt \cup {"tt", "ig"}
      [] d = "yt" -> AfterTt \cup {"tt", "ig", "fb"}

\* The invocation before this one ended with some destinations having
\* accepted the artifact and at least one having failed.
PrevPartial ==
    /\ prev.key # NoKey
    /\ prev.status = "FAILED"
    /\ prev.oks # {}
    /\ prev.oks # EnabledSet

\* get_latest_video_key has just returned in run_slot.
JustSelected == pc = "download" \/ (pc = "ret" /\ status = "SKIPPED")

NewerToday(k) ==
    \E o \in source : IsMp4(o) /\ KeyDate(o) = today /\ KeyLess(k, o)

\* Destination d accepted the artifact in the previous invocation and has
\* accepted it again in this one.
DoublePost(d) ==
    /\ Running
    /\ HasKey
    /\ s3_key = prev.key
    /\ d \in prev.oks
    /\ res[d] = "ok"

NeverLost == \A k \in ingested : k \in source \/ k \in posted

(***************************************************************************)
(* C1 as stated: when run_slot returns for a selected artifact, the        *)
(* artifact is archived and deleted iff every enabled destination          *)
(* succeeded.  Fails when copy_object or delete_object raises.             *)
(***************************************************************************)
C1_ArchivedIffAllSucceeded ==
    Returning => (Archived <=> AllEnabledOk)

(***************************************************************************)
(* C1 amended: copy_object is issued iff every enabled destination         *)
(* succeeded, delete_object only after a copy that did not raise; the      *)
(* artifact is archived and deleted iff every enabled destination          *)
(* succeeded and neither call raised; after a destination failure neither  *)
(* call is issued.                                                         *)
(***************************************************************************)
C1_ArchiveIffAllSucceededAndNoArchiveError ==
    /\ (Running /\ copyRes # "none") => AllEnabledOk
    /\ (Running /\ delRes # "none") => copyRes = "ok"
    /\ Returning =>
          /\ copyRes # "none" <=> AllEnabledOk
          /\ Archived <=> (AllEnabledOk /\ copyRes = "ok" /\ delRes = "ok")
          /\ ~AllEnabledOk => (copyRes = "none" /\ delRes = "none" /\ s3_key \in source)

C1_Witness ==
    /\ Returning
    /\ Archived
    /\ Cardinality(EnabledSet) >= 2
    /\ AllEnabledOk


(***************************************************************************)
(* C2 as stated: after an invocation that failed partially, the next       *)
(* invocation for the slot selects the same artifact again, on whatever    *)
(* date it runs.  Stated for the favourable case that no greater key has   *)
(* been added under the prefix, it still fails on a later date             *)
(* (strict-date selection).                                                *)
(***************************************************************************)
C2_NextRunSelectsSameArtifact ==
    /\ (PrevPartial /\ pc = "idle") => prev.key \in source
    /\ (PrevPartial /\ JustSelected
          /\ ~(\E o \in source : IsMp4(o) /\ KeyLess(prev.key, o)))
          => s3_key = prev.key

(***************************************************************************)
(* C2 amended: after an invocation that failed partially the artifact is   *)
(* still at its source location; the next invocation selects it again when *)
(* it runs on the same calendar date and no greater .mp4 key of that date  *)
(* has been added; on a later date it does not select it.                  *)
(***************************************************************************)
C2_RetainedAndReselectedSameDay ==
    /\ (PrevPartial /\ pc = "idle") => prev.key \in source
    /\ (PrevPartial /\ JustSelected /\ today = prev.day /\ ~NewerToday(prev.key))
          => s3_key = prev.key
    /\ (PrevPartial /\ JustSelected /\ today # prev.day) => s3_key # prev.key

C2_Witness ==
    /\ PrevPartial
    /\ pc = "fb"
    /\ s3_key = prev.key
    /\ today = prev.day

(***************************************************************************)
(* C3 as stated: over repeated invocations no destination accepts an       *)
(* artifact it has already accepted, and the artifact is never lost.       *)
(* Fails: after a FAILED invocation every enabled destination is attempted *)
(* again.                                                                  *)
(***************************************************************************)
C3_NoDoublePostNeverLost ==
    /\ \A d \in Dest : ~DoublePost(d)
    /\ NeverLost

(***************************************************************************)
(* C3 amended: the artifact is never lost, and a destination accepts again *)
(* an artifact it accepted in the previous invocation only when that       *)
(* invocation returned FAILED or died before returning, never after it     *)
(* returned SUCCESS.                                                       *)
(***************************************************************************)
C3_DoublePostOnlyAfterFailedRun ==
    /\ \A d \in Dest : DoublePost(d) => prev.status \in {"FAILED", ""}
    /\ (Running /\ HasKey /\ s3_key = prev.key) => prev.status # "SUCCESS"
    /\ NeverLost

C3_Witness ==
    /\ prev.status = "FAILED"
    /\ DoublePost("yt")
    /\ s3_key \in source

(***************************************************************************)
(* C4: once run_slot has returned SUCCESS for an artifact, the artifact is *)
(* absent from the source location and no later invocation selects or      *)
(* publishes it.                                                           *)
(***************************************************************************)
C4_ArchivedNeverSelectedAgain ==
    \A k \in succeeded :
        /\ k \notin source
        /\ k \in posted
        /\ Running => s3_key # k
        /\ GetLatestVideoKey(source, today) # k

C4_Witness ==
    /\ prev.status = "SUCCESS"
    /\ prev.key \in succeeded
    /\ today = prev.day
    /\ pc = "ret"
    /\ status = "SKIPPED"

(***************************************************************************)
(* C5: archive_s3_object copies before it deletes and deletes only after a *)
(* copy that did not fail, so in every reachable state -- a crash between  *)
(* the two calls included -- every ingested artifact is at its source key  *)
(* or at its posted/ key.                                                  *)
(***************************************************************************)
C5_CopyThenDeleteNeverLoses ==
    /\ \A k \in ingested : k \in source \/ k \in posted
    /\ pc = "delete" => (copyRes = "ok" /\ s3_key \in posted /\ s3_key \in source)
    /\ delRes # "none" => (copyRes = "ok" /\ s3_key \in posted)

\* The process died between copy_object and delete_object: the artifact is
\* at both keys.
C5_Witness ==
    /\ pc = "crashed"
    /\ crashedIn = "killed"
    /\ prev.key \in source
    /\ prev.key \in posted
    /\ prev.key \notin succeeded


(***************************************************************************)
(* C6: when every enabled destination succeeded and copy_object or         *)
(* delete_object raises, the exception is handled inside run_slot and      *)
(* run_slot returns FAILED, never SUCCESS.                                 *)
(***************************************************************************)
C6_ArchiveErrorDowngradesToFailed ==
    /\ (copyRes = "raise" \/ delRes = "raise") =>
          /\ pc \in {"archive_err", "ret"}
          /\ AllEnabledOk
          /\ pc = "ret" => status = "FAILED"
    /\ pc = "archive_err" => (copyRes = "raise" \/ delRes = "raise")
    /\ crashedIn \notin {"copy", "delete", "archive"}

C6_Witness ==
    /\ pc = "ret"
    /\ delRes = "raise"
    /\ AllEnabledOk
    /\ EnabledSet # {}
    /\ status = "FAILED"

(***************************************************************************)
(* C7: within one invocation every enabled destination is attempted,       *)
(* whatever the verdicts of the destinations before it.                    *)
(***************************************************************************)
C7_EveryEnabledDestinationAttempted ==
    \A d \in Dest :
        (EnabledFor(d) /\ (pc \in Past(d) \/ Returning)) => res[d] # "none"

C7_Witness ==
    /\ pc = "decide"
    /\ res["yt"] = "fail"
    /\ res["fb"] = "fail"
    /\ res["ig"] = "fail"
    /\ res["tt"] = "ok"

(***************************************************************************)
(* C8 as stated: a destination that is not enabled is never attempted, and *)
(* run_slot returns SUCCESS iff every enabled destination returned true.   *)
(* The second half fails when the archive step raises.                     *)
(***************************************************************************)
C8_SuccessIffAllEnabledTrue ==
    /\ \A d \in Dest : ~EnabledFor(d) => res[d] = "none"
    /\ Returning => (status = "SUCCESS" <=> AllEnabledOk)

(***************************************************************************)
(* C8 amended: a destination that is not enabled (slot flag off or         *)
(* platform disabled) is never attempted and does not count; the verdict   *)
(* at the lifecycle decision is all_ok iff every enabled destination       *)
(* returned true, and run_slot returns SUCCESS iff every enabled           *)
(* destination returned true and the archive step raised no error.         *)
(***************************************************************************)
C8_SuccessIffAllEnabledTrueAndArchived ==
    /\ \A d \in Dest : ~EnabledFor(d) => res[d] = "none"
    /\ pc = "decide" => (all_ok <=> AllEnabledOk)
    /\ Returning => (status = "SUCCESS" <=> (AllEnabledOk /\ NoArchiveError))
    /\ Returning => status \in {"SUCCESS", "FAILED"}

C8_Witness ==
    /\ Returning
    /\ status = "SUCCESS"
    /\ ~slot["yt"] /\ plat["yt"]
    /\ slot["fb"] /\ ~plat["fb"]
    /\ res["ig"] = "ok"
    /\ res["tt"] = "ok"

C10_AdapterExceptionIsFailureNotCrash ==
    /\ crashedIn \notin Dest
    /\ \A d \in {"fb", "ig", "tt"} :
          lastExc = d => (pc = NextStage(d) /\ res[d] = "fail" /\ ~all_ok)
    /\ lastExc = "yt" =>
          /\ pc \in {"yt_try", "yt_ret", "fb"}
          /\ pc = "yt_try" => yt.raised >= 1
          /\ pc = "yt_ret" => ~yt.ret
          /\ pc = "fb" => (res["yt"] = "fail" /\ ~all_ok)

C10_Witness ==
    /\ pc = "decide"
    /\ lastExc = "tt"
    /\ res["tt"] = "fail"
    /\ res["fb"] = "ok"

(***************************************************************************)
(* C11 as stated: every destination's publish is retried up to the         *)
(* attempt budget before the destination is reported as failed.  Stated    *)
(* here for Facebook and Instagram, whose adapters run_slot calls once:    *)
(* a false verdict would need MAX_YT_RETRIES calls of fb_chunk_upload,     *)
(* respectively MAX_YT_RETRIES container creations.  Fails: only           *)
(* upload_to_youtube has a retry loop.                                     *)
(***************************************************************************)
C11_EveryDestinationRetried ==
    /\ (fb.up = "false" /\ fb.starts >= 1) => fb.calls = MAX_YT_RETRIES
    /\ (ig.pc = "done" /\ ig.ret = "false") => ig.creates = MAX_YT_RETRIES

(***************************************************************************)
(* C12: the container's status is polled at most IG_POLLS times; when no   *)
(* poll within the budget reports FINISHED the adapter returns false and   *)
(* issues no media_publish POST; the media_publish POST is issued at most  *)
(* once and only after a poll reported FINISHED.                           *)
(***************************************************************************)
C12_PublishOnlyAfterFinishedPoll ==
    /\ ig.polls <= IG_POLLS
    /\ ig.publishes <= 1
    /\ ig.pc = "publish" => (ig.last = "FINISHED" /\ ig.publishes = 0)
    /\ ig.publishes = 1 => (ig.last = "FINISHED" /\ ig.pc = "done")
    /\ (ig.pc = "poll" /\ ig.polls >= 1) => ig.last # "FINISHED"
    /\ (ig.pc = "done" /\ ig.last # "FINISHED") =>
          (ig.ret = "false" /\ ig.publishes = 0)
    /\ ig.ret = "true" => (ig.publishes = 1 /\ ig.last = "FINISHED")

\* The whole budget was spent without a FINISHED poll.
C12_Witness ==
    /\ ig.pc = "done"
    /\ ig.polls = IG_POLLS
    /\ ig.last = "IN_PROGRESS"
    /\ ig.ret = "false"
    /\ ig.publishes = 0

(***************************************************************************)
(* C13 as stated: a poll that reports ERROR is terminal: no status poll    *)
(* follows it and the publish POST is never issued for that creation id.   *)
(* Fails: the loop leaves only on FINISHED, so polling goes on after ERROR *)
(* and a later FINISHED is published.                                      *)
(***************************************************************************)
C13_ErrorPollIsTerminal ==
    ig.errorAt > 0 => (ig.polls = ig.errorAt /\ ig.publishes = 0)

\* Requests fb_chunk_upload has issued.
FbRequests == fb.starts + fb.transfers + fb.finishes

(***************************************************************************)
(* C14: when the server follows the chunk protocol (the start response     *)
(* names a first range [0, e) of the N-byte file, each transfer response   *)
(* advances start by the chunk sent, until start = end = N), the transfer  *)
(* loop ends exactly when start = end, exactly one transfer POST has been  *)
(* issued per non-empty range the server named, and the finish POST is     *)
(* then issued exactly once.                                               *)
(***************************************************************************)
C14_OneTransferPerRangeThenOneFinish ==
    /\ fb.pc = "finish" => (fb.s = fb.e /\ fb.finishes = 0)
    /\ fb.finishes <= 1
    /\ fb.finishes = 1 => fb.s = fb.e
    /\ (fb.conform /\ fb.pc = "loop") =>
          /\ fb.s <= fb.e /\ fb.e <= fb.size
          /\ fb.ranges = fb.transfers + (IF fb.s # fb.e THEN 1 ELSE 0)
    /\ (fb.conform /\ fb.pc = "finish") =>
          (fb.s = fb.size /\ fb.transfers = fb.ranges)
    /\ (fb.conform /\ fb.ret = "true") =>
          (fb.s = fb.size /\ fb.transfers = fb.ranges /\ fb.finishes = 1)
    /\ (fb.conform /\ fb.pc \in {"returned", "done"} /\ fb.exists
          /\ fb.badPhase = "" /\ fb.ret # "raise") => fb.ret = "true"

\* A file of MaxSize bytes went up in several chunks.
C14_Witness ==
    /\ fb.pc = "done"
    /\ fb.conform
    /\ fb.size = MaxSize
    /\ fb.transfers >= 2
    /\ fb.finishes = 1
    /\ fb.up = "true"

(***************************************************************************)
(* C15: a non-200 response in the start, a transfer or the finish phase    *)
(* makes fb_chunk_upload return false with no further request issued;      *)
(* fb_chunk_upload returns true only if the start response, every transfer *)
(* response and the finish response were all 200.                          *)
(***************************************************************************)
C15_Non200AbortsUpload ==
    /\ [](/\ fb.badPhase # "" => (fb.pc \in {"returned", "done"} /\ fb.ret = "false")
          /\ fb.badPhase = "start" => (fb.transfers = 0 /\ fb.finishes = 0)
          /\ fb.badPhase = "transfer" => fb.finishes = 0
          /\ fb.ret = "true" =>
                /\ fb.badPhase = ""
                /\ fb.starts = 1 /\ fb.finishes = 1
                /\ fb.oks = FbRequests)
    /\ [][fb.badPhase # "" => FbRequests' = FbRequests]_vars

\* The second transfer was answered with a non-200 status.
C15_Witness ==
    /\ fb.pc = "done"
    /\ fb.badPhase = "transfer"
    /\ fb.transfers = 2
    /\ fb.oks = 2
    /\ fb.up = "false"

(***************************************************************************)
(* C16: an object whose name does not carry today's date token is never    *)
(* selected; when no .mp4 of today is listed the selector returns none and *)
(* run_slot returns SKIPPED having downloaded, published, archived and     *)
(* deleted nothing; objects of other dates are never removed from the      *)
(* source location.                                                        *)
(***************************************************************************)
C16_OnlyTodaysArtifactSelected ==
    /\ [](/\ HasKey => (KeyDate(s3_key) = today /\ IsMp4(s3_key))
          /\ (JustSelected /\ Mp4sToday(source, today) = {}) =>
                (status = "SKIPPED" /\ pc = "ret")
          /\ status = "SKIPPED" =>
                /\ s3_key = NoKey
                /\ res = NoRes
                /\ copyRes = "none" /\ delRes = "none")
    /\ [][/\ \A k \in source : KeyDate(k) # today => k \in source'
          /\ status = "SKIPPED" => (source' = source /\ posted' = posted)]_vars

\* Only a video of another date is under the prefix: the slot is skipped.
C16_Witness ==
    /\ pc = "ret"
    /\ status = "SKIPPED"
    /\ \E k \in source : IsMp4(k) /\ KeyDate(k) # today

(***************************************************************************)
(* C17 as stated: the selector considers every object under the prefix, on *)
(* every page of the listing, so it returns the greatest .mp4 of today     *)
(* among all of them, or none when there is none.  Fails: list_objects_v2  *)
(* is called once and only its first page is read.                         *)
(***************************************************************************)
C17_SelectionDrainsListing ==
    JustSelected => s3_key = GetLatestVideoKey(source, today)

\* The age in hours of the i-th archived object when the cleanup started.
ClAge(i) == cl.now - cl.lm[i]
ClObjects == 1..Len(cl.lm)

(***************************************************************************)
(* C18 as stated: a completed cleanup with the 48-hour window has deleted  *)
(* an archived object iff the object is older than 48 hours.  Fails when   *)
(* delete_object raises: the exception is logged and the old object stays. *)
(***************************************************************************)
C18_DeletedIffOlderThanWindow ==
    cl.pc = "done" => \A i \in ClObjects : i \in cl.gone <=> ClAge(i) > MAX_AGE_HOURS

(***************************************************************************)
(* C18 amended: a cleanup that lists every page issues delete_object for   *)
(* an archived object iff the object is older than 48 hours, and the       *)
(* object is deleted iff that call did not raise; an object not older than *)
(* 48 hours is never deleted: one modified 47 hours ago is retained, one   *)
(* modified 49 hours ago is deleted unless its delete_object call raises.  *)
(***************************************************************************)
C18_DeleteIssuedIffOlderThanWindow ==
    /\ cl.gone = cl.issued \ cl.failed
    /\ \A i \in ClObjects :
          /\ i \in cl.issued => (ClAge(i) > MAX_AGE_HOURS /\ i < cl.next)
          /\ (ClAge(i) > MAX_AGE_HOURS /\ i < cl.next /\ cl.pc # "idle")
                => i \in cl.issued
    /\ cl.pc = "done" =>
          /\ cl.next = Len(cl.lm) + 1
          /\ \A i \in ClObjects :
                /\ i \in cl.issued <=> ClAge(i) > MAX_AGE_HOURS
                /\ ClAge(i) = 47 => i \notin cl.gone
                /\ ClAge(i) = 49 => (i \in cl.gone <=> i \notin cl.failed)

\* Objects of 47, 48 and 49 hours: only the last one has been deleted.
C18_Witness ==
    /\ cl.pc = "done"
    /\ \E i, j, k \in ClObjects :
          /\ ClAge(i) = 47 /\ i \notin cl.gone
          /\ ClAge(j) = MAX_AGE_HOURS /\ j \notin cl.gone
          /\ ClAge(k) = 49 /\ k \in cl.gone

\* The process is over.
MainEnded == mn.pc \in {"done", "died"}
UnknownFilter == mn.filter # "" /\ mn.filter \notin SlotNameSet

(***************************************************************************)
(* C19 as stated: a process that got to its slots has, when it ends,       *)
(* called cleanup_posted_objects exactly once, whatever happened in the    *)
(* slot runs.  Fails: an exception of the listing or of the download       *)
(* leaves run_slot and ends the process before the cleanup.                *)
(***************************************************************************)
C19_CleanupOncePerInvocation ==
    /\ mn.cleanups <= 1
    /\ (MainEnded /\ mn.died # "env") => mn.cleanups = 1

(***************************************************************************)
(* C20 as stated: with SLOT_FILTER set to a name no slot has, the process  *)
(* aborts before any slot runs and never gets to the summary and the       *)
(* cleanup.  Fails: every slot is passed over, the empty summary is logged *)
(* and the process ends normally.                                          *)
(***************************************************************************)
C20_UnknownFilterIsFatal ==
    UnknownFilter =>
        /\ mn.ran = 0
        /\ mn.pc \notin {"summary", "cleanup", "done"}

\* The slots that have an entry in run_summary.
Summarised == {n \in SlotNameSet : mn.summary[n] # ""}

(***************************************************************************)
(* C21: when one of the four mandatory storage settings is missing, the    *)
(* process exits with a non-zero status at startup: no slot is run (no     *)
(* listing, download, publish or archive), nothing is summarised and the   *)
(* cleanup is not called.                                                  *)
(***************************************************************************)
C21_MissingStorageSettingIsFatal ==
    /\ (mn.env # CoreEnv /\ mn.pc # "idle") =>
          /\ mn.pc = "died" /\ mn.died = "env"
          /\ mn.exit = "nonzero"
          /\ mn.ran = 0 /\ Summarised = {}
          /\ mn.cleanups = 0 /\ cl.pc = "idle" /\ cl.issued = {}
    /\ mn.died = "env" => mn.env # CoreEnv

\* Only the bucket name is missing.
C21_Witness ==
    /\ mn.env = CoreEnv \ {"S3_BUCKET_NAME"}
    /\ mn.pc = "died"
    /\ mn.exit = "nonzero"

(***************************************************************************)
(* C22 as stated: a process that passed the startup validation has one     *)
(* entry in run_summary per slot it executed, each SUCCESS, FAILED or      *)
(* SKIPPED, whatever failed in the slots, and it reaches the summary       *)
(* before it ends.  Fails: an exception of the listing or of the download  *)
(* leaves run_slot without a status and ends the process (see C19).        *)
(***************************************************************************)
C22_SummaryHasEveryExecutedSlot ==
    (mn.pc # "idle" /\ mn.died # "env") =>
        /\ \A n \in Summarised : mn.summary[n] \in SlotStatus
        /\ Cardinality(Summarised) = mn.ran
        /\ MainEnded => mn.died \in {"", "cleanup"}

\* The identifier follows '<YYYY-MM-DD> - <title>.<ext>'.
Conventional(b) ==
    /\ Len(b) >= 4
    /\ b[1] \in DateTokens
    /\ b[2] = "sep"
    /\ b[Len(b)] \in ExtTokens
    /\ \A i \in 3..(Len(b) - 1) : b[i] = "w"

(***************************************************************************)
(* C23 as stated: for an identifier '<YYYY-MM-DD> - <title>.<ext>' the     *)
(* extracted date is the date token and the extracted title is what        *)
(* follows the separator, without the extension; without a date token the  *)
(* date is today's.  Fails: the title is the whole base name with only a   *)
(* trailing ".mp4" removed, date token and separator included.             *)
(***************************************************************************)
C23_TitleIsRemainderAfterSeparator ==
    mt.pc = "done" =>
        /\ Conventional(mt.key) =>
              /\ mt.date = mt.key[1]
              /\ mt.title = SubSeq(mt.key, 3, Len(mt.key) - 1)
        /\ (\A i \in 1..Len(mt.key) : mt.key[i] \notin DateTokens) =>
              mt.date = "TODAY"

(***************************************************************************)
(* C24: when the current range has start # end and the read of the local   *)
(* file at offset start yields no byte, fb_chunk_upload returns false: no  *)
(* transfer POST is issued for that range (none ever carries an empty      *)
(* chunk) and the finish POST is not issued.                               *)
(***************************************************************************)
C24_EmptyChunkAbortsUpload ==
    /\ fb.zeroPosts = 0
    /\ (fb.pc = "loop" /\ fb.s # fb.e) => fb.ranges = fb.transfers + 1
    /\ fb.empty =>
          /\ fb.pc \in {"returned", "done"}
          /\ fb.ret = "false"
          /\ fb.s # fb.e /\ ChunkRead(fb.size, fb.s, fb.e) = 0
          /\ fb.ranges = fb.transfers + 1
          /\ fb.finishes = 0
    /\ (fb.empty /\ fb.pc = "done") => fb.up = "false"

\* After one chunk the server names a range behind the end of the file.
C24_Witness ==
    /\ fb.pc = "done"
    /\ fb.empty
    /\ fb.transfers = 1
    /\ fb.s >= fb.size
    /\ fb.up = "false"

\* What an adapter has done so far: its position, the requests it has
\* issued, what the polls said, its verdict.
IgTrace(r) == <<r.pc, r.creates, r.polls, r.last, r.errorAt, r.publishes, r.ret>>

(***************************************************************************)
(* C25: run_slot sends a short slot to upload_to_instagram_reels and a     *)
(* standard slot to upload_to_instagram_video, and neither is turned away  *)
(* by the adapter's type guard; given the same answers to their create,    *)
(* poll and publish requests the two adapters issue the same requests in   *)
(* the same order, see the same statuses and return the same verdict;      *)
(* they differ in the media type sent and in the time slept.               *)
(***************************************************************************)
C25_ReelsAndVideoSameMachine ==
    /\ IgTrace(ig) = IgTrace(igv)
    /\ ig.pc # "idle" => (ig.variant = "reels" /\ igv.variant = "video")
    /\ ig.creates >= 1 => (ig.media = "REELS" /\ igv.media = "VIDEO")
    /\ (ig.pc = "done" /\ ig.ret = "false") => (ig.creates = 1 /\ igv.creates = 1)
    /\ ig.slept = IgSleep("reels") * ig.polls
    /\ igv.slept = IgSleep("video") * igv.polls

\* Both published after nine polls that were not FINISHED and a tenth that was.
C25_Witness ==
    /\ ig.pc = "done" /\ igv.pc = "done"
    /\ ig.ret = "true" /\ igv.ret = "true"
    /\ ig.polls = IG_POLLS /\ igv.polls = IG_POLLS
    /\ ig.errorAt > 0
    /\ ig.slept # igv.slept

(***************************************************************************)
(* C26: cleanup_posted_objects goes through every page of the listing of   *)
(* posted/ before it concludes: each page starts where the continuation    *)
(* token of the page before points, so every object is examined exactly    *)
(* once; the loop continues after a truncated page and ends after the      *)
(* first page that is not truncated.                                       *)
(***************************************************************************)
C26_EveryPageExaminedOnce ==
    /\ ~cl.twice
    /\ cl.seen = 1..(cl.next - 1)
    /\ (cl.pc = "listing" /\ cl.pages >= 1) =>
          /\ cl.token = cl.next
          /\ cl.next <= Len(cl.lm)
          /\ cl.truncs = cl.pages
    /\ cl.pc = "done" =>
          /\ cl.seen = ClObjects
          /\ cl.pages >= 1
          /\ cl.truncs = cl.pages - 1

\* A listing of three objects received in three pages of one.
C26_Witness ==
    /\ cl.pc = "done"
    /\ cl.pages = MaxArchived
    /\ cl.truncs = MaxArchived - 1
    /\ cl.seen = 1..MaxArchived

\* The objects a slot's source location holds, by their place in the bucket.
SourceObjects == (Len(cl.lm) + 1)..(Len(cl.lm) + Len(cl.src))

(***************************************************************************)
(* C30: cleanup_posted_objects issues delete_object only for objects under *)
(* posted/: whatever the slots did and however old the objects at the      *)
(* source locations are, none of them is deleted by the cleanup; and an    *)
(* object archived by this process, last modified now, is not deleted by   *)
(* the cleanup that ends the process.                                      *)
(***************************************************************************)
C30_CleanupDeletesOnlyOldPosted ==
    /\ cl.issued \subseteq ClObjects
    /\ cl.issued \cap SourceObjects = {}
    /\ cl.seen \cap SourceObjects = {}
    /\ \A i \in cl.fresh : i \in ClObjects /\ cl.lm[i] = cl.now /\ i \notin cl.issued

\* The process ended behind a cleanup that deleted an old archived object,
\* with an older object at a source location and one archived by a slot.
C30_Witness ==
    /\ mn.pc = "done"
    /\ cl.gone # {}
    /\ cl.fresh # {}
    /\ \E j \in 1..Len(cl.src) : cl.now - cl.src[j] > MAX_AGE_HOURS

\* Today's .mp4 keys on the page the selector reads.
CandidatesToday == {k \in ListObjectsV2(source) : IsMp4(k) /\ KeyDate(k) = today}

(***************************************************************************)
(* C27: the selection is a function of the listed candidates and of today: *)
(* it is none exactly when no listed .mp4 carries today's date token, and  *)
(* otherwise it is the one listed .mp4 of today that every other one       *)
(* precedes in the order of the keys; no second key qualifies.             *)
(***************************************************************************)
C27_GreatestOfTodaysCandidates ==
    JustSelected =>
        /\ s3_key = NoKey <=> CandidatesToday = {}
        /\ s3_key # NoKey =>
              /\ s3_key \in CandidatesToday
              /\ \A o \in CandidatesToday \ {s3_key} :
                    KeyLess(o, s3_key) /\ ~KeyLess(s3_key, o)
        /\ \A k \in CandidatesToday :
              (\A o \in CandidatesToday \ {k} : KeyLess(o, k)) => k = s3_key

\* Two videos of today were listed and the greater one was taken.
C27_Witness ==
    /\ pc = "download"
    /\ Cardinality(CandidatesToday) >= 2
    /\ \E o \in CandidatesToday : KeyLess(o, s3_key)

(***************************************************************************)
(* C28: when the selector returns none, run_slot returns SKIPPED and that  *)
(* is all it does: the step from the call to the return and the return     *)
(* itself leave the source location, the archive and the record of what    *)
(* was published as they were; nothing was downloaded, no destination was  *)
(* attempted, no copy and no delete was issued; and the invocation is not  *)
(* a failure: no exception, all_ok untouched, status SKIPPED.              *)
(***************************************************************************)
C28_SelectionMissOnlySkips ==
    /\ [](status = "SKIPPED" =>
             /\ pc = "ret"
             /\ all_ok
             /\ lastExc = ""
             /\ crashedIn = ""
             /\ yt = YtIdle
             /\ \A d \in Dest : res[d] = "none")
    /\ [][(pc = "idle" /\ runs' = runs + 1 /\ pc' # "crashed"
              /\ CandidatesToday = {}) =>
             /\ pc' = "ret"
             /\ status' = "SKIPPED"
             /\ UNCHANGED <<worldVars, res, all_ok, yt, copyRes, delRes,
                            lastExc, crashedIn, succeeded>>]_vars
    /\ [][(pc = "ret" /\ status = "SKIPPED" /\ pc' = "idle") =>
             /\ status' # "FAILED"
             /\ UNCHANGED <<worldVars, succeeded, crashedIn>>]_vars

\* A slot is skipped after an earlier invocation published and archived.
C28_Witness ==
    /\ pc = "ret"
    /\ status = "SKIPPED"
    /\ runs = MaxRuns
    /\ succeeded # {}
    /\ posted # {}

\* No destination is enabled for the slot.
NoneEnabled == EnabledSet = {}

(***************************************************************************)
(* C29 as stated: with an artifact selected and no destination enabled,    *)
(* run_slot attempts no publish, archives and deletes the source artifact  *)
(* and returns SUCCESS.  Fails when copy_object or delete_object raises:   *)
(* the artifact is not archived and FAILED is returned.                    *)
(***************************************************************************)
C29_NoDestinationArchivesAndSucceeds ==
    (Returning /\ NoneEnabled) =>
        /\ \A d \in Dest : res[d] = "none"
        /\ Archived
        /\ status = "SUCCESS"

(***************************************************************************)
(* C29 amended: with an artifact selected and no destination enabled,      *)
(* run_slot attempts no publish and still calls the archive; it returns    *)
(* SUCCESS with the source artifact archived and deleted unless the copy   *)
(* or the delete raises, and FAILED then; the archive does not require     *)
(* that the artifact was published to any destination.                     *)
(***************************************************************************)
C29_NoDestinationStillArchives ==
    (Returning /\ NoneEnabled) =>
        /\ \A d \in Dest : res[d] = "none"
        /\ copyRes # "none"
        /\ status = (IF NoArchiveError THEN "SUCCESS" ELSE "FAILED")
        /\ NoArchiveError => Archived
        /\ copyRes = "raise" => (s3_key \in source /\ delRes = "none")

\* Nothing was enabled, nothing was published, the artifact is archived.
C29_Witness ==
    /\ Returning
    /\ NoneEnabled
    /\ status = "SUCCESS"
    /\ Archived
    /\ succeeded = {}

\* The first n helpers of post_video_to_tiktok.
TtPrefix(n) == SubSeq(TtOrder, 1, n)

(***************************************************************************)
(* C31: post_video_to_tiktok runs creator_info, init, file upload and      *)
(* status fetch in that order; the first helper that reports an error is   *)
(* the last one entered, and no request follows it; upload_to_tiktok       *)
(* returns true iff all four helpers returned without error, whatever      *)
(* publish status the final fetch carried.                                 *)
(***************************************************************************)
C31_TiktokStepsInOrderAbortOnFirstError ==
    /\ tt.steps = TtPrefix(Len(tt.steps))
    /\ tt.reqs = TtPrefix(Len(tt.reqs))
    /\ Len(tt.reqs) <= Len(tt.steps)
    /\ tt.failedAt = "" =>
          /\ tt.completed = Len(tt.steps)
          /\ tt.reqs = tt.steps
    /\ tt.failedAt # "" =>
          /\ tt.pc = "done"
          /\ tt.steps[Len(tt.steps)] = tt.failedAt
          /\ tt.completed = Len(tt.steps) - 1
          /\ tt.pub = ""
    /\ tt.pc = "done" =>
          /\ tt.ret = "true" <=> (tt.completed = Len(TtOrder) /\ tt.failedAt = "")
          /\ tt.ret = "false" <=> tt.completed < Len(TtOrder)
          /\ tt.completed = Len(TtOrder) => tt.pub \in PublishStatus
    /\ (\E i \in 1..Len(tt.reqs) : tt.reqs[i] = "upload") => tt.put = tt.size
    /\ Len(tt.reqs) = Len(TtOrder) =>
          (tt.fetched = tt.publish_id /\ tt.fetched \in PublishIds)

\* All four helpers returned, TikTok reports the publish as FAILED, and
\* upload_to_tiktok returned true.
C31_Witness ==
    /\ tt.pc = "done"
    /\ tt.steps = TtOrder
    /\ tt.reqs = TtOrder
    /\ tt.pub = "FAILED"
    /\ tt.ret = "true"

====
